---- MODULE Spec2Model ----
(***************************************************************************)
(* String-art generation service: the job registry (MemStorage), the HTTP  *)
(* routes /api/generate, /api/cancel and /api/continue, and the engine     *)
(* (StringArtEngine) that places thread connections between pins.          *)
(*                                                                         *)
(* Line scores are floating-point functions of the image; the model keeps  *)
(* the candidate sets the code computes and lets the score pick any        *)
(* admitted candidate.  One action runs the code from one macrotask yield  *)
(* (await of a timer or of I/O) to the next, or to the next progress       *)
(* callback; /api/cancel interleaves only where atYield holds.             *)
(***************************************************************************)
EXTENDS Integers, Sequences, FiniteSets, TLC

\* ---------------------------------------------------------------- bounds
\* params.pinCount, the number of pins on the frame (schema: 100..800).
PinCount == 4
\* params.maxThreads of a fresh generation (schema: 500..50000).
MaxThreads == 3
\* additionalThreads of a continue request is drawn from 1..MaxAdditional.
MaxAdditional == 1

Pins == 0 .. (PinCount - 1)
\* Job ids (random UUIDs in the code): the job of the fresh generation and
\* the job of the continue request made on its result.
GenJob == "generate"
ContJob == "continue"
JobIds == {GenJob, ContJob}
NoJobId == "none"

Max(a, b) == IF a >= b THEN a ELSE b
Min(a, b) == IF a <= b THEN a ELSE b

\* ------------------------------------------------------ image / face layout
\* The image decides which pins lie in which region of the face mask, which
\* pins are close to the face, and which chords cross it.  One layout:
\* pin 1 lies inside the face ellipse, pin 2 in the body band.
getRegionForPixel(p) ==
  IF p = 1 THEN "face" ELSE IF p = 2 THEN "body" ELSE "background"

\* Pins within 1.5 * faceRadius of the face centre.
facePins == {p \in Pins : p <= 2}

\* faceMask at the midpoint of chord a-b: long chords pass the centre, and
\* so do the chords that end at the pin inside the face ellipse.
isMidpointInFace(a, b) ==
  LET dist == IF a >= b THEN a - b ELSE b - a
  IN  a = 1 \/ b = 1 \/ (dist >= 2 /\ PinCount - dist >= 2)

\* Math.floor(Math.random() * n), sampled at both ends of its range.
randomBelow(n) == {0, n - 1}

\* ------------------------------------------------------------ pure helpers
circularDistance(a, b) ==
  LET dist == IF a >= b THEN a - b ELSE b - a
  IN  Min(dist, PinCount - dist)

\* Region policies.  FaceSkip is the code's value; the body and background
\* values (4 and 6/7/8 in the code) are scaled to the pin-count bound.
FaceSkip == 2
BodySkip == 2
BackgroundSkipHigh == 2
BackgroundSkipBalanced == 2
BackgroundSkipFast == 2

getMinPinSkipForRegion(region, preset) ==
  IF region = "face" THEN FaceSkip
  ELSE IF region = "body" THEN BodySkip
  ELSE IF preset = "high" THEN BackgroundSkipHigh
  ELSE IF preset = "balanced" THEN BackgroundSkipBalanced
  ELSE BackgroundSkipFast

\* getEffectiveMinSkip as every caller uses it: no baseMinSkip argument.
getEffectiveMinSkip(r1, r2, preset) ==
  IF r1 = "face" \/ r2 = "face" THEN FaceSkip
  ELSE Max(getMinPinSkipForRegion(r1, preset), getMinPinSkipForRegion(r2, preset))

\* ------------------------------------------------------- lines and canvas
\* The canvas is kept at the pixels under the pins, pixel p for pin p: the
\* Bresenham walk of getLinePixels starts on the pixel of fromPin and ends on
\* the pixel of toPin, and a pixelSet holds a pixel once.
linePixels(a, b) == IF a = b THEN <<a>> ELSE <<a, b>>

\* threadWidthPx = Math.max(1, Math.round(threadWidth * 2)), threadWidth 0.4.
ThreadWidthPx == 1

\* A cache key that forgets the direction of the line.
cacheKeyUndirected(a, b) == <<Min(a, b), Max(a, b), ThreadWidthPx>>

\* cacheKey = `${fromPin}-${toPin}-${threadWidthPx}`
cacheKey(a, b) == <<a, b, ThreadWidthPx>>

\* getLinePixels: the cached list when the key is present, else the walk.
getLinePixels(cache, a, b) ==
  IF cacheKey(a, b) \in DOMAIN cache THEN cache[cacheKey(a, b)] ELSE linePixels(a, b)

\* The cache after getLinePixels was called for every pair of the set.
lineCacheAfter(cache, pairs) ==
  LET new == {cacheKey(x[1], x[2]) : x \in pairs} \ DOMAIN cache
  IN  [k \in DOMAIN cache \cup new |->
         IF k \in DOMAIN cache THEN cache[k]
         ELSE LET x == CHOOSE y \in pairs : cacheKey(y[1], y[2]) = k
              IN  linePixels(x[1], x[2])]

connectionPairs(conns) == {<<conns[k].fromPin, conns[k].toPin>> : k \in 1 .. Len(conns)}

\* Gamma-corrected blending of one pixel, Math.round(255 * ((v/255)^2.2 *
\* (1 - opacity))^(1/2.2)) = Math.round(v * (1 - opacity)^(1/2.2)), with the
\* factor (1 - opacity)^(1/2.2) in units of 1/FactorScale.  Factors are those
\* of threadOpacity 0.12: the stage opacities 0.18, 0.132 and 0.096, the face
\* pass opacity 0.108, and the green channel under a Cyan thread.
FactorScale == 100000
ThreadFactor == 94355
Stage1Factor == 91374
Stage2Factor == 93768
Stage3Factor == 95516
FaceFactor == 94938
CyanGreenFactor == 97291
WhiteValue == 255

blendPixel(v, factor) == Max(0, (2 * v * factor + FactorScale) \div (2 * FactorScale))

\* revertLine on one pixel: Math.min(255, Math.round(v / (1 - opacity)^(1/2.2)))
\* at params.threadOpacity.
revertPixel(v) == Min(WhiteValue, (2 * v * FactorScale + ThreadFactor) \div (2 * ThreadFactor))

RECURSIVE blendLine(_, _, _, _)
blendLine(img, pixels, k, factor) ==
  IF k > Len(pixels) THEN img
  ELSE blendLine([img EXCEPT ![pixels[k]] = blendPixel(img[pixels[k]], factor)],
                 pixels, k + 1, factor)

RECURSIVE revertLinePixels(_, _, _)
revertLinePixels(img, pixels, k) ==
  IF k > Len(pixels) THEN img
  ELSE revertLinePixels([img EXCEPT ![pixels[k]] = revertPixel(img[pixels[k]])],
                        pixels, k + 1)

whiteCanvas == [p \in Pins |-> WhiteValue]

\* overdrawMap: "overdrawMap[idx]++" for every pixel of a composited line,
\* "Math.max(0, overdrawMap[idx] - 1)" for every pixel of a reverted one.
noOverdraw == [p \in Pins |-> 0]

RECURSIVE incrementOverdraw(_, _, _)
incrementOverdraw(map, pixels, k) ==
  IF k > Len(pixels) THEN map
  ELSE incrementOverdraw([map EXCEPT ![pixels[k]] = map[pixels[k]] + 1], pixels, k + 1)

RECURSIVE decrementOverdraw(_, _, _)
decrementOverdraw(map, pixels, k) ==
  IF k > Len(pixels) THEN map
  ELSE decrementOverdraw([map EXCEPT ![pixels[k]] = Max(0, map[pixels[k]] - 1)],
                         pixels, k + 1)

\* The blending loop of applyLineWithColor / applyLineWithOpacity and of
\* revertLine on progressImage; the caller has looked the line up already.
applyToProgress(img, cache, a, b, factor) == blendLine(img, getLinePixels(cache, a, b), 1, factor)
revertLine(img, cache, a, b) == revertLinePixels(img, getLinePixels(cache, a, b), 1)
applyToOverdraw(map, cache, a, b) == incrementOverdraw(map, getLinePixels(cache, a, b), 1)
revertOverdraw(map, cache, a, b) == decrementOverdraw(map, getLinePixels(cache, a, b), 1)

\* rebuildProgressImage: every connection re-applied on a white canvas at
\* params.threadOpacity.
RECURSIVE rebuildProgressImage(_, _, _)
rebuildProgressImage(conns, cache, k) ==
  IF k = 0 THEN whiteCanvas
  ELSE applyToProgress(rebuildProgressImage(conns, cache, k - 1), cache,
                       conns[k].fromPin, conns[k].toPin, ThreadFactor)

\* generateColorPreviewDataUrl, green channel: every connection drawn on a
\* white canvas with its colour (black when it has none) at threadOpacity.
colorFactor(color) == IF color = "#00BCD4" THEN CyanGreenFactor ELSE ThreadFactor

RECURSIVE generateColorPreviewDataUrl(_, _, _)
generateColorPreviewDataUrl(conns, cache, k) ==
  IF k = 0 THEN whiteCanvas
  ELSE applyToProgress(generateColorPreviewDataUrl(conns, cache, k - 1), cache,
                       conns[k].fromPin, conns[k].toPin, colorFactor(conns[k].color))

\* continueGeneration's replay of the existing connections: bresenhamLine
\* walks the line itself, without the cache.
RECURSIVE replayExisting(_, _)
replayExisting(conns, k) ==
  IF k = 0 THEN whiteCanvas
  ELSE blendLine(replayExisting(conns, k - 1),
                 linePixels(conns[k].fromPin, conns[k].toPin), 1, ThreadFactor)

\* continueGeneration's replay counts every pixel of every replayed line.
RECURSIVE replayOverdraw(_, _)
replayOverdraw(conns, k) ==
  IF k = 0 THEN noOverdraw
  ELSE incrementOverdraw(replayOverdraw(conns, k - 1),
                         linePixels(conns[k].fromPin, conns[k].toPin), 1)

\* ------------------------------------------------------------------ state
VARIABLES
  jobs,          \* MemStorage.jobs: job id -> [status, currentThread, result]
  activeJobs,    \* routes: ids with a registered engine
  running,       \* id of the job whose engine coroutine is alive, or NoJobId
  params,        \* engine.params
  pc,            \* position of the engine coroutine
  atYield,       \* the coroutine is suspended on a timer or on I/O
  cancelled,     \* engine.cancelled
  connections,   \* engine.state.connections
  currentPin,    \* engine.state.currentPin
  stage, t, threadNum, lastPreviewUpdate,   \* driver loop locals
  work,          \* pass locals: indices already treated
  additionalThreads,  \* continueGeneration's argument
  progressImage, \* engine.state.progressImage, at the pixels under the pins
  overdrawMap,   \* engine.state.overdrawMap, at the pixels under the pins
  lineCache,     \* engine.state.lineCache: cache key -> pixel list
  densityImage,  \* engine.state.densityImage, in units of 1 / DensityScale
  response,      \* the answer to the last POST /api/generate or /api/continue
  cancelCalled,  \* history: engine.cancel() was called for this job id
  cancelK,       \* history: Len(connections) when cancel() was called
  lateK,         \* history: largest currentThread recorded after cancel()
  lateAppend,    \* history: Len(connections) grew after cancel()
  densityOps,    \* history: the operations applied to densityImage
  skipCall,      \* the last candidate admission: generator, pins, min-skip applied
  pins,          \* the pin generator's result: perimeter positions in index order
  pinCall,       \* the pin generator's arguments: frame, pin count, face range
  client         \* the state of the Home page of one browser

vars == <<jobs, activeJobs, running, params, pc, atYield, cancelled,
          connections, currentPin, stage, t, threadNum, lastPreviewUpdate,
          work, additionalThreads, progressImage, lineCache, densityImage,
          response, cancelCalled, cancelK, lateK, lateAppend, densityOps,
          skipCall, overdrawMap, pins, pinCall, client>>

NoParams == [qualityPreset |-> "balanced", colorMode |-> "monochrome",
             useSimulatedAnnealing |-> FALSE, minPinSkip |-> 2, maxThreads |-> 0]
NoResult == [present |-> FALSE, id |-> "none", connections |-> <<>>, totalThreads |-> 0,
             preview |-> whiteCanvas, threadColors |-> {}]
\* No candidate admission has been recorded.
NoSkipCall == [generator |-> "none", currentPin |-> 0, candidate |-> 0, applied |-> 0]

\* The pin generator has not been called.
NoPinCall == [frameType |-> "none", pinCount |-> 0, face |-> <<>>]

\* The Home page after mounting, with the history of the jobs whose
\* generation the user cancelled.
NoExport == [kind |-> "none", id |-> "none", ok |-> FALSE]
NoClient == [appState |-> "upload", currentJobId |-> NoJobId, result |-> NoResult,
             resultJob |-> NoJobId, polling |-> {}, pending |-> "none",
             cancelled |-> {}, export |-> NoExport]

NoJob == [status |-> "none", currentThread |-> 0, result |-> NoResult,
          params |-> NoParams]

\* The requests of POST /api/generate: qualityPreset, colorMode,
\* useSimulatedAnnealing (minPinSkip 2 and maxThreads MaxThreads in all).
ParamChoices ==
  { <<"balanced", "monochrome", FALSE>>, <<"fast", "monochrome", FALSE>>,
    <<"high", "monochrome", FALSE>>, <<"high", "monochrome", TRUE>>,
    <<"balanced", "color", FALSE>>, <<"high", "color", TRUE>> }

Init ==
  /\ jobs = [j \in JobIds |-> NoJob]
  /\ activeJobs = {}
  /\ running = NoJobId
  /\ params = NoParams
  /\ pc = "idle"
  /\ atYield = FALSE
  /\ cancelled = FALSE
  /\ connections = <<>>
  /\ currentPin = 0
  /\ stage = 0 /\ t = 0 /\ threadNum = 0 /\ lastPreviewUpdate = 0
  /\ work = <<>>
  /\ additionalThreads = 0
  /\ progressImage = whiteCanvas
  /\ overdrawMap = noOverdraw
  /\ lineCache = <<>>
  /\ densityImage = [p \in Pins |-> 0]
  /\ response = "none"
  /\ densityOps = <<>>
  /\ skipCall = NoSkipCall
  /\ pins = <<>>
  /\ pinCall = NoPinCall
  /\ client = NoClient
  /\ cancelCalled = [j \in JobIds |-> FALSE]
  /\ cancelK = 0
  /\ lateK = 0
  /\ lateAppend = FALSE

\* ---------------------------------------------------------------- storage
createJob(js, id, p) ==
  [js EXCEPT ![id] = [status |-> "pending", currentThread |-> 0, result |-> NoResult,
                      params |-> p]]

\* updateJobProgress merges the snapshot and sets status "processing".
updateJobProgress(js, id, k) ==
  IF js[id].status = "none" THEN js
  ELSE [js EXCEPT ![id].status = "processing", ![id].currentThread = k]

\* updateJobProgress with a snapshot that carries no currentThread.
updateJobStage(js, id) ==
  IF js[id].status = "none" THEN js ELSE [js EXCEPT ![id].status = "processing"]

completeJob(js, id, result) ==
  IF js[id].status = "none" THEN js
  ELSE [js EXCEPT ![id].status = "complete", ![id].result = result,
                  ![id].currentThread = result.totalThreads]

failJob(js, id) ==
  IF js[id].status = "none" THEN js ELSE [js EXCEPT ![id].status = "error"]

\* The progress callback the routes hand to the engine.
onProgress(k) ==
  /\ jobs' = updateJobProgress(jobs, running, k)
  /\ lateK' = IF cancelled THEN Max(lateK, k) ELSE lateK

noProgress == UNCHANGED <<jobs, lateK>>

\* connections' is given; record growth after cancel().
trackAppend ==
  lateAppend' = (lateAppend \/ (cancelled /\ Len(connections') > Len(connections)))

\* ----------------------------------------------------------------- routes
\* generationParamsSchema: maxThreads z.number().min(500).max(50000), scaled
\* to SchemaMinThreads .. MaxThreads; minPinSkip z.number().min(1).max(50).
SchemaMinThreads == 1
SchemaMinPinSkip == 1
SchemaMaxPinSkip == 50

generationParamsSchema(p) ==
  /\ p.maxThreads \in SchemaMinThreads .. MaxThreads
  /\ p.minPinSkip \in SchemaMinPinSkip .. SchemaMaxPinSkip

\* The maxThreads values of the requests: one inside the schema's range, one
\* below it and one above it.
RequestedMaxThreads == {SchemaMinThreads - 1, MaxThreads, MaxThreads + 1}

\* POST /api/generate up to the first await of generate().  A request the
\* schema rejects is answered 400 "Invalid parameters" (ZodError) before
\* storage.createJob.
PostGenerate ==
  /\ jobs[GenJob].status = "none"
  /\ running = NoJobId
  /\ \E c \in ParamChoices, m \in RequestedMaxThreads :
       LET request == [qualityPreset |-> c[1], colorMode |-> c[2],
                       useSimulatedAnnealing |-> c[3], minPinSkip |-> 2,
                       maxThreads |-> m]
       IN IF generationParamsSchema(request)
            THEN /\ params' = request
                 /\ jobs' = updateJobProgress(
                              updateJobStage(createJob(jobs, GenJob, request), GenJob),
                              GenJob, 0)
                 /\ activeJobs' = activeJobs \cup {GenJob}
                 /\ running' = GenJob
                 /\ cancelled' = FALSE
                 /\ pc' = "preprocess"
                 /\ atYield' = TRUE
                 /\ response' = "pending"
            ELSE /\ response' = "invalid"
                 /\ UNCHANGED <<params, jobs, activeJobs, running, cancelled, pc, atYield>>
  /\ UNCHANGED <<connections, currentPin, stage, t, threadNum, lastPreviewUpdate,
                 work, additionalThreads, cancelCalled, cancelK, lateK, lateAppend,
                 progressImage, overdrawMap, lineCache, densityImage, densityOps, skipCall, pins, pinCall, client>>

\* POST /api/cancel/:jobId, for the job being computed.
Cancel(j) ==
  /\ j = running
  /\ atYield
  /\ IF j \in activeJobs
       THEN /\ cancelled' = TRUE
            /\ cancelCalled' = [cancelCalled EXCEPT ![j] = TRUE]
            /\ cancelK' = IF cancelled THEN cancelK ELSE Len(connections)
            /\ lateK' = IF cancelled THEN lateK ELSE 0
       ELSE UNCHANGED <<cancelled, cancelCalled, cancelK, lateK>>
  /\ activeJobs' = activeJobs \ {j}
  /\ jobs' = failJob(jobs, j)
  /\ UNCHANGED <<running, params, additionalThreads, pc, atYield, connections, currentPin, stage, t,
                 threadNum, lastPreviewUpdate, work, lateAppend>>
  /\ UNCHANGED <<progressImage, overdrawMap, lineCache, densityImage, densityOps, skipCall, pins, pinCall, client, response>>

\* ----------------------------------------------------- engine: generate
Conn(f, g, c, n) == [fromPin |-> f, toPin |-> g, color |-> c, colorName |-> n]

\* applyLineWithColor / applyLineWithOpacity without a colour argument:
\* one connection is pushed and currentPin moves to toPin.
applyLineWithOpacity(conns, f, g) == Append(conns, Conn(f, g, "none", "none"))
applyLineWithColor(conns, f, g) == Append(conns, Conn(f, g, "none", "none"))

\* A loop head that does not poll the cancellation flag.
loopGuardWithoutCancel(i, n) == i < n

\* Every loop of the engine: for (...; i < n && !this.cancelled; ...).
loopGuard(i, n) == i < n /\ ~cancelled

\* generate() after preprocessImage resolves: face detection, pins, state
\* initialisation, "Generating threads..." and the dispatch on the mode.
Preprocess ==
  /\ pc = "preprocess"
  /\ onProgress(0)
  /\ connections' = <<>>
  /\ currentPin' = 0
  /\ pc' = IF params.colorMode = "color" THEN "interleaved"
           ELSE IF params.qualityPreset = "high" THEN "multiscale"
           ELSE "greedy"
  /\ stage' = IF params.colorMode = "color" THEN 0 ELSE 1
  /\ t' = 0 /\ threadNum' = 0 /\ lastPreviewUpdate' = 0
  /\ atYield' = FALSE
  /\ progressImage' = whiteCanvas
  /\ overdrawMap' = noOverdraw
  /\ lineCache' = <<>>
  /\ UNCHANGED <<activeJobs, running, params, additionalThreads, cancelled, work, cancelCalled,
                 cancelK, lateAppend, densityImage, densityOps, skipCall, pins, pinCall, client, response>>

\* runAdvancedGreedyOptimization.  The first iteration reads the undeclared
\* identifier currentRegionSkip: the call throws, generate() rejects and the
\* route records "Generation failed".  With the loop not entered (cancelled
\* during preprocessing) the driver only emits its final snapshot.
GreedyOptimization ==
  /\ pc = "greedy"
  /\ IF loopGuard(0, params.maxThreads)
       THEN /\ jobs' = failJob(jobs, running)
            /\ activeJobs' = activeJobs \ {running}
            /\ running' = NoJobId
            /\ pc' = "failed"
            /\ UNCHANGED <<stage, lateK>>
       ELSE /\ onProgress(Len(connections))
            /\ pc' = "dispatch"
            /\ stage' = 0
            /\ UNCHANGED <<activeJobs, running>>
  /\ atYield' = FALSE
  /\ UNCHANGED <<params, additionalThreads, cancelled, connections, currentPin, t, threadNum,
                 lastPreviewUpdate, work, cancelCalled, cancelK, lateAppend>>
  /\ UNCHANGED <<progressImage, overdrawMap, lineCache, densityImage, densityOps, skipCall, pins, pinCall, client, response>>

PreviewIntervalMin == 20

multiScaleStageThreads(s) ==
  LET n  == params.maxThreads
      s1 == (n * 25) \div 100
      s2 == (n * 35) \div 100
  IN  IF s = 1 THEN s1 ELSE IF s = 2 THEN s2 ELSE n - s1 - s2

multiScaleStageSkip(s) ==
  IF s = 1 THEN Max(params.minPinSkip, PinCount \div 6)
  ELSE IF s = 2 THEN Max(params.minPinSkip, PinCount \div 15)
  ELSE params.minPinSkip

\* stage1Opacity, stage2Opacity, stage3Opacity as gamma blend factors.
multiScaleStageFactor(s) ==
  IF s = 1 THEN Stage1Factor ELSE IF s = 2 THEN Stage2Factor ELSE Stage3Factor

\* One iteration of runStage: candidates are the pins at least stageSkip away;
\* each is scored (its line is looked up) and the best one is composited with
\* the stage's opacity.
MultiScaleStep ==
  /\ pc = "multiscale"
  /\ loopGuard(t, multiScaleStageThreads(stage))
  /\ LET cands == {i \in Pins : circularDistance(i, currentPin) >= multiScaleStageSkip(stage)}
         interval == Max(PreviewIntervalMin, params.maxThreads \div 100)
     IN IF cands = {}
          THEN /\ t' = multiScaleStageThreads(stage)
               /\ UNCHANGED <<connections, currentPin, threadNum, lastPreviewUpdate,
                              jobs, lateK, atYield, progressImage, overdrawMap,
                              lineCache>>
          ELSE /\ \E bestPin \in cands :
                    /\ connections' = applyLineWithOpacity(connections, currentPin, bestPin)
                    /\ currentPin' = bestPin
                    /\ lineCache' = lineCacheAfter(lineCache, {<<currentPin, i>> : i \in cands})
                    /\ progressImage' = applyToProgress(progressImage, lineCache', currentPin,
                                                        bestPin, multiScaleStageFactor(stage))
                    /\ overdrawMap' = applyToOverdraw(overdrawMap, lineCache', currentPin, bestPin)
               /\ IF (threadNum - lastPreviewUpdate) >= interval \/ threadNum = 0
                    THEN onProgress(threadNum + 1) /\ lastPreviewUpdate' = threadNum
                    ELSE noProgress /\ UNCHANGED lastPreviewUpdate
               /\ t' = t + 1
               /\ threadNum' = threadNum + 1
               /\ atYield' = TRUE
  /\ trackAppend
  /\ UNCHANGED <<activeJobs, running, params, additionalThreads, pc, cancelled, stage, work,
                 cancelCalled, cancelK>>
  /\ UNCHANGED <<densityImage, densityOps, skipCall, pins, pinCall, client, response>>

\* A stage's loop has ended: next stage, or the final snapshot of the driver.
MultiScaleStageEnd ==
  /\ pc = "multiscale"
  /\ ~loopGuard(t, multiScaleStageThreads(stage))
  /\ IF stage < 3
       THEN /\ stage' = stage + 1
            /\ t' = 0
            /\ noProgress
            /\ UNCHANGED <<pc, atYield>>
       ELSE /\ onProgress(Len(connections))
            /\ pc' = "dispatch"
            /\ stage' = 0
            /\ t' = 0
            /\ atYield' = FALSE
  /\ UNCHANGED <<activeJobs, running, params, additionalThreads, cancelled, connections, currentPin,
                 threadNum, lastPreviewUpdate, work, cancelCalled, cancelK, lateAppend>>
  /\ UNCHANGED <<progressImage, overdrawMap, lineCache, densityImage, densityOps, skipCall, pins, pinCall, client, response>>

THREAD_COLOR_PALETTE ==
  { [hex |-> "#000000", name |-> "Black"], [hex |-> "#00BCD4", name |-> "Cyan"],
    [hex |-> "#E91E63", name |-> "Magenta"], [hex |-> "#FFEB3B", name |-> "Yellow"] }

\* evaluateColoredLine compares a line's colour with the image: the palette
\* entries that can score best on an image of black and cyan strokes.
bestColors == {c \in THREAD_COLOR_PALETTE : c.name \in {"Black", "Cyan"}}

ColorPreviewIntervalMin == 15

interleavedStageThreads(s) ==
  LET n == params.maxThreads
  IN  IF s = 0 THEN 0
      ELSE IF s = 1 THEN (n * 25) \div 100
      ELSE IF s = 2 THEN (n * 35) \div 100
      ELSE (n * 40) \div 100

interleavedStageSkip(s) ==
  IF s = 1 THEN Max(2, PinCount \div 8)
  ELSE IF s = 2 THEN Max(2, PinCount \div 15)
  ELSE params.minPinSkip

\* generateColorCandidates: with a face mask the skip is the region policy of
\* the two pins and minSkip goes unused; without one it is minSkip.
colorCandidateSkip(cur, p, minSkip, hasMask) ==
  IF hasMask
    THEN getEffectiveMinSkip(getRegionForPixel(cur), getRegionForPixel(p),
                             params.qualityPreset)
    ELSE minSkip

generateColorCandidates(cur, minSkip, hasMask) ==
  {p \in Pins :
     /\ p # cur
     /\ circularDistance(p, cur) >= colorCandidateSkip(cur, p, minSkip, hasMask)}

\* runInterleavedColorOptimization at the head of "for (const stage of stages)"
\* (stage 0: the entry of the driver, which emits "Initializing...").
InterleavedStageStart ==
  /\ pc = "interleaved"
  /\ ~loopGuard(t, interleavedStageThreads(stage))
  /\ IF stage = 3 \/ cancelled
       THEN /\ pc' = "dispatch"
            /\ stage' = 0
            /\ IF stage = 0 THEN onProgress(0) ELSE noProgress
            /\ UNCHANGED atYield
       ELSE /\ stage' = stage + 1
            /\ onProgress(threadNum)
            /\ atYield' = FALSE
            /\ UNCHANGED pc
  /\ t' = 0
  /\ UNCHANGED <<activeJobs, running, params, additionalThreads, cancelled, connections, currentPin,
                 threadNum, lastPreviewUpdate, work, cancelCalled, cancelK, lateAppend>>
  /\ UNCHANGED <<progressImage, overdrawMap, lineCache, densityImage, densityOps, skipCall, pins, pinCall, client, response>>

\* One iteration of a stage: every candidate pin is scored with every colour.
InterleavedStep ==
  /\ pc = "interleaved"
  /\ loopGuard(t, interleavedStageThreads(stage))
  /\ LET candidates == generateColorCandidates(currentPin, interleavedStageSkip(stage), TRUE)
         scored == lineCacheAfter(lineCache, {<<currentPin, p>> : p \in candidates})
         preview == (threadNum - lastPreviewUpdate) >=
                      Max(ColorPreviewIntervalMin, params.maxThreads \div 150)
     IN /\ IF candidates = {}
             THEN UNCHANGED <<connections, currentPin, overdrawMap>>
             ELSE \E bestPin \in candidates, bestColor \in bestColors :
                    /\ connections' = Append(connections,
                          Conn(currentPin, bestPin, bestColor.hex, bestColor.name))
                    /\ currentPin' = bestPin
                    /\ overdrawMap' = applyToOverdraw(overdrawMap, scored, currentPin, bestPin)
        /\ IF preview
             THEN /\ onProgress(threadNum)
                  /\ lastPreviewUpdate' = threadNum
                  /\ lineCache' = lineCacheAfter(scored, connectionPairs(connections'))
             ELSE /\ noProgress
                  /\ UNCHANGED lastPreviewUpdate
                  /\ lineCache' = scored
  /\ t' = t + 1
  /\ threadNum' = threadNum + 1
  /\ atYield' = TRUE
  /\ trackAppend
  /\ UNCHANGED <<activeJobs, running, params, additionalThreads, pc, cancelled, stage, work,
                 cancelCalled, cancelK>>
  /\ UNCHANGED <<progressImage, densityImage, densityOps, skipCall, pins, pinCall, client, response>>

\* ------------------------------------------------ generate: the pass chain
\* Program constants, scaled to the thread bound (code values in brackets).
FaceShareDivisor == 3        \* extraFaceThreads = floor(maxThreads * 0.2)  [5]
FaceThreadCap == 2000
MinFacePins == 3             \* facePins.length < 10 returns                 [10]
LocalMinConnections == 4     \* connections.length < 100 returns             [100]
LocalWorstDivisor == 4       \* worstCount = floor(length * 0.1)             [10]
LocalWorstCap == 300
LocalAlternativeStarts == 50
LocalYieldEvery == 30
AnnealYieldEvery == 100
AnnealCap == 1000
GeneticMinConnections == 4   \* connections.length < 50 returns              [50]
Generations == 2             \* generations                                  [30]
GeneticYieldEvery == 5
BacktrackWindow == 2         \* checkCount = min(100, length)                [100]

mono == params.colorMode # "color"

extraFaceThreads == Min(FaceThreadCap, params.maxThreads \div FaceShareDivisor)
faceMinPinSkip == Max(1, params.minPinSkip \div 2)
worstCount(len) == Min(len \div LocalWorstDivisor, LocalWorstCap)
\* iterations = Math.min(length * 0.2, 1000): i < iterations for an integer i
\* is i < ceil(length / 5), capped.
annealIterations(len) == Min((len + 4) \div 5, AnnealCap)

\* The passes of generate() in order: 1 face, 2 local refinement,
\* 3 annealing, 4 genetic, 5 backtracking; 6 is the result assembly.
\* passCondition is generate()'s own if; passRuns says the pass gets past
\* its early returns and enters its loop.
passCondition(p) ==
  IF p = 1 THEN ~cancelled
  ELSE IF p = 2 THEN ~cancelled /\ mono
  ELSE IF p = 3 THEN params.useSimulatedAnnealing /\ ~cancelled /\ mono
  ELSE IF p = 4 THEN params.qualityPreset = "high" /\ ~cancelled /\ mono
  ELSE mono

passRuns(p) ==
  LET len == Len(connections)
  IN  IF p = 1 THEN Cardinality(facePins) >= MinFacePins /\ extraFaceThreads > 0
      ELSE IF p = 2 THEN len >= LocalMinConnections /\ worstCount(len) > 0
      ELSE IF p = 3 THEN len > 0
      ELSE IF p = 4 THEN len >= GeneticMinConnections
      ELSE TRUE

nextPass(from) ==
  LET ps == {p \in (from + 1) .. 5 : passCondition(p) /\ passRuns(p)}
  IN  IF ps = {} THEN 6 ELSE CHOOSE p \in ps : \A q \in ps : p <= q

passName(p) ==
  IF p = 1 THEN "face" ELSE IF p = 2 THEN "local" ELSE IF p = 3 THEN "anneal"
  ELSE IF p = 4 THEN "genetic" ELSE IF p = 5 THEN "backtrack" ELSE "assemble"

\* generate() between two passes: every pass whose condition holds gets its
\* snapshot onProgress(connections.length, ...), the first one that does not
\* return at once is entered.
Dispatch ==
  /\ pc = "dispatch"
  /\ LET nxt == nextPass(stage)
     IN /\ pc' = passName(nxt)
        /\ IF \E p \in (stage + 1) .. Min(nxt, 5) : passCondition(p)
             THEN onProgress(Len(connections))
             ELSE noProgress
  /\ t' = 0
  /\ work' = <<>>
  /\ atYield' = FALSE
  /\ UNCHANGED <<activeJobs, running, params, additionalThreads, cancelled, connections, currentPin,
                 stage, threadNum, lastPreviewUpdate, cancelCalled, cancelK, lateAppend>>
  /\ UNCHANGED <<progressImage, overdrawMap, lineCache, densityImage, densityOps, skipCall, pins, pinCall, client, response>>

\* One iteration of runFaceRefinementPass.  Monochrome: applyLineWithOpacity
\* pushes the connection and the loop body pushes it once more.
FaceRefinementStep ==
  /\ pc = "face"
  /\ loopGuard(t, extraFaceThreads)
  /\ LET startPin == currentPin
         cands == {p \in facePins : /\ p # startPin
                                    /\ circularDistance(p, startPin) >= faceMinPinSkip
                                    /\ isMidpointInFace(startPin, p)}
         scored == lineCacheAfter(lineCache, {<<startPin, p>> : p \in cands})
         preview == t % Max(1, extraFaceThreads \div 20) = 0
     IN /\ IF cands = {}
             THEN UNCHANGED <<connections, currentPin, progressImage, overdrawMap>>
             ELSE \E bestPin \in cands :
                    /\ currentPin' = bestPin
                    /\ overdrawMap' = applyToOverdraw(overdrawMap, scored, startPin, bestPin)
                    /\ IF mono
                         THEN /\ connections' =
                                   Append(applyLineWithOpacity(connections, startPin, bestPin),
                                          Conn(startPin, bestPin, "#000000", "none"))
                              /\ progressImage' = applyToProgress(progressImage, scored,
                                                     startPin, bestPin, FaceFactor)
                         ELSE /\ \E bestColor \in bestColors :
                                   connections' = Append(connections,
                                      Conn(startPin, bestPin, bestColor.hex, bestColor.name))
                              /\ UNCHANGED progressImage
        /\ lineCache' = IF preview /\ ~mono
                          THEN lineCacheAfter(scored, connectionPairs(connections'))
                          ELSE scored
        /\ IF preview
             THEN /\ jobs' = updateJobProgress(jobs, running, Len(connections'))
                  /\ lateK' = IF cancelled THEN Max(lateK, Len(connections')) ELSE lateK
             ELSE noProgress
  /\ t' = t + 1
  /\ atYield' = TRUE
  /\ trackAppend
  /\ UNCHANGED <<activeJobs, running, params, additionalThreads, pc, cancelled, stage, threadNum,
                 lastPreviewUpdate, work, cancelCalled, cancelK>>
  /\ UNCHANGED <<densityImage, densityOps, skipCall, pins, pinCall, client, response>>

\* One iteration of runLocalRefinement on a low-scoring connection idx that
\* has not been treated yet.  Option 1 keeps fromPin, option 2 keeps toPin.
LocalRefinementStep ==
  /\ pc = "local"
  /\ loopGuard(t, worstCount(Len(connections)))
  /\ \E idx \in (1 .. Len(connections)) \ {work[k] : k \in 1 .. Len(work)} :
       LET conn == connections[idx]
           option1 == {<<conn.fromPin, p>> : p \in
                         {q \in Pins : q # conn.fromPin
                             /\ circularDistance(q, conn.fromPin) >= params.minPinSkip}}
           option2 == {<<p, conn.toPin>> : p \in
                         {q \in Pins : q < Min(PinCount, LocalAlternativeStarts)
                             /\ q # conn.toPin
                             /\ circularDistance(q, conn.toPin) >= params.minPinSkip}}
           candidates == option1 \cup option2
           scored == lineCacheAfter(lineCache, connectionPairs(connections) \cup candidates)
           reverted == revertLine(progressImage, scored, conn.fromPin, conn.toPin)
           uncounted == revertOverdraw(overdrawMap, scored, conn.fromPin, conn.toPin)
       IN /\ work' = Append(work, idx)
          /\ lineCache' = scored
          /\ IF candidates = {}
               THEN /\ currentPin' = conn.toPin
                    /\ progressImage' = applyToProgress(reverted, scored, conn.fromPin,
                                                        conn.toPin, ThreadFactor)
                    /\ overdrawMap' = applyToOverdraw(uncounted, scored, conn.fromPin, conn.toPin)
                    /\ UNCHANGED connections
               ELSE \E best \in candidates :
                      /\ connections' = [connections EXCEPT
                                           ![idx] = Conn(best[1], best[2], "none", "none")]
                      /\ currentPin' = best[2]
                      /\ progressImage' = applyToProgress(reverted, scored, best[1],
                                                          best[2], ThreadFactor)
                      /\ overdrawMap' = applyToOverdraw(uncounted, scored, best[1], best[2])
  /\ IF t % LocalYieldEvery = 0
       THEN onProgress(Len(connections)) /\ atYield' = TRUE
       ELSE noProgress /\ atYield' = FALSE
  /\ t' = t + 1
  /\ trackAppend
  /\ UNCHANGED <<activeJobs, running, params, additionalThreads, pc, cancelled, stage, threadNum,
                 lastPreviewUpdate, cancelCalled, cancelK>>
  /\ UNCHANGED <<densityImage, densityOps, skipCall, pins, pinCall, client, response>>

\* One iteration of runEnhancedSimulatedAnnealing: a random connection and a
\* random alternative end pin; "continue" skips the snapshot and the yield.
AnnealingStep ==
  /\ pc = "anneal"
  /\ loopGuard(t, annealIterations(Len(connections)))
  /\ \E connIdx \in randomBelow(Len(connections)), altToPin \in randomBelow(PinCount),
        accept \in BOOLEAN :
       LET conn == connections[connIdx + 1]
           skipped == altToPin = conn.fromPin
                      \/ circularDistance(altToPin, conn.fromPin) < params.minPinSkip
           scored == IF skipped THEN lineCache
                     ELSE lineCacheAfter(lineCache, {<<conn.fromPin, conn.toPin>>,
                                                     <<conn.fromPin, altToPin>>})
       IN /\ lineCache' = scored
          /\ IF ~skipped /\ accept
               THEN /\ connections' = [connections EXCEPT
                                         ![connIdx + 1] = Conn(conn.fromPin, altToPin, "none", "none")]
                    /\ currentPin' = altToPin
                    /\ progressImage' =
                         applyToProgress(revertLine(progressImage, scored, conn.fromPin, conn.toPin),
                                         scored, conn.fromPin, altToPin, ThreadFactor)
                    /\ overdrawMap' =
                         applyToOverdraw(revertOverdraw(overdrawMap, scored, conn.fromPin, conn.toPin),
                                         scored, conn.fromPin, altToPin)
               ELSE UNCHANGED <<connections, currentPin, progressImage, overdrawMap>>
          /\ IF ~skipped /\ t % AnnealYieldEvery = 0
               THEN onProgress(Len(connections)) /\ atYield' = TRUE
               ELSE noProgress /\ atYield' = FALSE
  /\ t' = t + 1
  /\ trackAppend
  /\ UNCHANGED <<activeJobs, running, params, additionalThreads, pc, cancelled, stage, threadNum,
                 lastPreviewUpdate, work, cancelCalled, cancelK>>
  /\ UNCHANGED <<densityImage, densityOps, skipCall, pins, pinCall, client, response>>

\* The loop of the face, local or annealing pass has ended.
PassReturn ==
  /\ \/ pc = "face" /\ ~loopGuard(t, extraFaceThreads) /\ stage' = 1
     \/ pc = "local" /\ ~loopGuard(t, worstCount(Len(connections))) /\ stage' = 2
     \/ pc = "anneal" /\ ~loopGuard(t, annealIterations(Len(connections))) /\ stage' = 3
  /\ pc' = "dispatch"
  /\ UNCHANGED <<jobs, activeJobs, running, params, additionalThreads, atYield, cancelled, connections,
                 currentPin, t, threadNum, lastPreviewUpdate, work, cancelCalled,
                 cancelK, lateK, lateAppend>>
  /\ UNCHANGED <<progressImage, overdrawMap, lineCache, densityImage, densityOps, skipCall, pins, pinCall, client, response>>

\* An individual of the initial population: a copy of the list after
\* "for (i = 0; i < length * mutationRate; i++)" mutations, each of which
\* sets toPin of a random entry to a random pin other than fromPin.  The
\* fitter half survives every generation unchanged, so such an individual
\* can be the one adopted; children carry further mutations of the same kind.
MutationRatePercent == 15
initialMutations(len) == (len * MutationRatePercent + 99) \div 100

RECURSIVE mutated(_, _)
mutated(conns, k) ==
  IF k = 0 THEN {conns}
  ELSE LET prev == mutated(conns, k - 1)
           sites == {x \in randomBelow(Len(conns)) \X randomBelow(PinCount) :
                       x[2] # conns[x[1] + 1].fromPin}
       IN  prev \cup {[d EXCEPT ![x[1] + 1].toPin = x[2]] : d \in prev, x \in sites}

\* The populations whose line pixels evaluateSolution looks up in one
\* generation: every individual equal to the current list (no mutation took
\* effect), or, for a pin q, at most PopulationSize individuals of which the
\* i-th has toPin of entry i set to q (where q is not that entry's fromPin).
PopulationSize == 10
populations(conns) ==
  {{conns}} \cup
  { {conns} \cup {[conns EXCEPT ![i].toPin = q] :
                    i \in {k \in 1 .. Min(Len(conns), PopulationSize - 1) :
                             conns[k].fromPin # q}} : q \in Pins }

\* One generation of runGeneticRefinement.  The population is local to the
\* pass; the connection list changes only when the best individual is adopted.
GeneticGeneration ==
  /\ pc = "genetic"
  /\ loopGuard(t, Generations)
  /\ \E population \in populations(connections) :
       lineCache' = lineCacheAfter(lineCache,
                      UNION {connectionPairs(individual) : individual \in population})
  /\ IF t % GeneticYieldEvery = 0
       THEN onProgress(Len(connections)) /\ atYield' = TRUE
       ELSE noProgress /\ atYield' = FALSE
  /\ t' = t + 1
  /\ UNCHANGED <<activeJobs, running, params, additionalThreads, pc, cancelled, connections, currentPin,
                 stage, threadNum, lastPreviewUpdate, work, cancelCalled, cancelK,
                 lateAppend, progressImage, overdrawMap, densityImage,
                 densityOps, skipCall, pins, pinCall, client, response>>

\* The target image at the pixels under the pins: dark in the face, mid-grey
\* in the body band, white in the background.
targetImage ==
  [p \in Pins |-> IF getRegionForPixel(p) = "face" THEN 64
                  ELSE IF getRegionForPixel(p) = "body" THEN 128 ELSE WhiteValue]

\* calculateMSE times the number of pixels: the sum of the squared differences.
RECURSIVE sumSquaredDiff(_, _, _)
sumSquaredDiff(target, current, n) ==
  IF n = 0 THEN 0
  ELSE sumSquaredDiff(target, current, n - 1)
         + (target[n - 1] - current[n - 1]) * (target[n - 1] - current[n - 1])

\* evaluateSolution: the list replayed on a white canvas at threadOpacity,
\* fitness 1000000 / (mse + 1) with mse = sum / PinCount, rounded down.
FitnessScale == 1000000
evaluateSolution(conns, cache) ==
  LET tempProgress == rebuildProgressImage(conns, cache, Len(conns))
  IN  (FitnessScale * PinCount)
        \div (sumSquaredDiff(targetImage, tempProgress, PinCount) + PinCount)

\* After the loop the fittest individual of the final population replaces
\* state.connections, also when the loop was left because of cancel(), and
\* rebuildProgressImage replays it on a white canvas.  The population holds
\* mutated copies only (here two of them, which may be equal); the list the
\* pass was given is not a member unless no mutation took effect.
GeneticAdopt ==
  /\ pc = "genetic"
  /\ ~loopGuard(t, Generations)
  /\ \E m1 \in mutated(connections, initialMutations(Len(connections))),
        m2 \in mutated(connections, initialMutations(Len(connections))) :
       LET population == {m1, m2}
           scored == lineCacheAfter(lineCache,
                       UNION {connectionPairs(individual) : individual \in population})
       IN \E best \in population :
            /\ \A other \in population :
                  evaluateSolution(best, scored) >= evaluateSolution(other, scored)
            /\ connections' = best
            /\ lineCache' = scored
            /\ progressImage' = rebuildProgressImage(best, lineCache', Len(best))
  /\ pc' = "dispatch"
  /\ stage' = 4
  /\ trackAppend
  /\ UNCHANGED <<jobs, activeJobs, running, params, additionalThreads, atYield, cancelled, currentPin, t,
                 threadNum, lastPreviewUpdate, work, cancelCalled, cancelK, lateK>>
  /\ UNCHANGED <<overdrawMap, densityImage, densityOps, skipCall, pins, pinCall, client, response>>

\* The canvas after the loop of runPerceptualBacktracking has treated the
\* connections i, i - 1, ..., lo: each is reverted, and composited again
\* unless it is marked for removal.
RECURSIVE backtrackImage(_, _, _, _, _, _)
backtrackImage(img, cache, conns, i, lo, toRemove) ==
  IF i < lo THEN img
  ELSE LET reverted == revertLine(img, cache, conns[i].fromPin, conns[i].toPin)
           after == IF i \in toRemove THEN reverted
                    ELSE applyToProgress(reverted, cache, conns[i].fromPin,
                                         conns[i].toPin, ThreadFactor)
       IN  backtrackImage(after, cache, conns, i - 1, lo, toRemove)

\* The overdraw map after the same loop: every reverted line is uncounted,
\* every restored one counted again.
RECURSIVE backtrackOverdraw(_, _, _, _, _, _)
backtrackOverdraw(map, cache, conns, i, lo, toRemove) ==
  IF i < lo THEN map
  ELSE LET reverted == revertOverdraw(map, cache, conns[i].fromPin, conns[i].toPin)
           after == IF i \in toRemove THEN reverted
                    ELSE applyToOverdraw(reverted, cache, conns[i].fromPin, conns[i].toPin)
       IN  backtrackOverdraw(after, cache, conns, i - 1, lo, toRemove)

\* runPerceptualBacktracking: each of the last checkCount connections is
\* reverted; it stays removed when SSIM rises, otherwise it is re-applied
\* (currentPin moves to its toPin).  Synchronous.
Backtracking ==
  /\ pc = "backtrack"
  /\ LET len == Len(connections)
         checkCount == Min(BacktrackWindow, len)
         window == (len - checkCount + 1) .. len
     IN \E toRemove \in SUBSET window :
          LET kept == window \ toRemove
          IN /\ connections' = [k \in 1 .. (len - Cardinality(toRemove)) |->
                   connections[CHOOSE i \in (1 .. len) \ toRemove :
                      Cardinality({m \in (1 .. i) \ toRemove : TRUE}) = k]]
             /\ lineCache' = lineCacheAfter(lineCache,
                               {<<connections[i].fromPin, connections[i].toPin>> : i \in window})
             /\ progressImage' = backtrackImage(progressImage, lineCache', connections, len,
                                                len - checkCount + 1, toRemove)
             /\ overdrawMap' = backtrackOverdraw(overdrawMap, lineCache', connections, len,
                                                len - checkCount + 1, toRemove)
             /\ currentPin' = IF kept = {} THEN currentPin
                              ELSE connections[CHOOSE i \in kept : \A m \in kept : i <= m].toPin
  /\ pc' = "assemble"
  /\ trackAppend
  /\ UNCHANGED <<jobs, activeJobs, running, params, additionalThreads, atYield, cancelled, stage, t,
                 threadNum, lastPreviewUpdate, work, cancelCalled, cancelK, lateK>>
  /\ UNCHANGED <<densityImage, densityOps, skipCall, pins, pinCall, client, response>>

\* Math.round((count / length) * 100)
roundedPercentage(count, length) == (200 * count + length) \div (2 * length)

\* Step 9 of generate() in colour mode: one summary per distinct
\* conn.color || "#000000", named after the first connection that has it.
colorCounts(conns) ==
  LET colorOf(k) == IF conns[k].color = "none" THEN "#000000" ELSE conns[k].color
      nameOf(k) == IF conns[k].colorName = "none" THEN "Unknown" ELSE conns[k].colorName
      first(c) == CHOOSE k \in 1 .. Len(conns) :
                    colorOf(k) = c /\ \A m \in 1 .. (k - 1) : colorOf(m) # c
      count(c) == Cardinality({k \in 1 .. Len(conns) : colorOf(k) = c})
  IN  {[color |-> c, colorName |-> nameOf(first(c)), count |-> count(c),
        percentage |-> roundedPercentage(count(c), Len(conns))] :
         c \in {colorOf(k) : k \in 1 .. Len(conns)}}

\* The monochrome summary: a single black thread.
singleBlack(conns) ==
  {[color |-> "#000000", colorName |-> "Black", count |-> Len(conns), percentage |-> 100]}

\* generatePreviewDataUrl: the progress image as it stands.
generatePreviewDataUrl(img) == img

\* "id: randomUUID()" of the two results: fresh values, which differ from
\* each other and from the job ids that createJob drew.
GenResultId == "generate-result"
ContResultId == "continue-result"

\* Steps 9-10 of generate(): monochrome paints every connection black; the
\* preview is the colour replay in colour mode, the progress image otherwise.
assembleResult(conns, img, cache) ==
  LET final == IF mono THEN [k \in 1 .. Len(conns) |-> [conns[k] EXCEPT !.color = "#000000"]]
               ELSE conns
  IN  [present |-> TRUE, id |-> GenResultId, connections |-> final, totalThreads |-> Len(final),
       preview |-> IF mono THEN generatePreviewDataUrl(img)
                   ELSE generateColorPreviewDataUrl(final, cache, Len(final)),
       threadColors |-> IF mono THEN singleBlack(final) ELSE colorCounts(final)]

\* generate() resolves; the route calls completeJob and drops the engine.
Assemble ==
  /\ pc = "assemble"
  /\ lineCache' = IF mono THEN lineCache
                  ELSE lineCacheAfter(lineCache, connectionPairs(connections))
  /\ LET result == assembleResult(connections, progressImage, lineCache')
     IN /\ jobs' = completeJob(jobs, running, result)
        /\ connections' = result.connections
        /\ lateK' = IF cancelled THEN Max(lateK, result.totalThreads) ELSE lateK
  /\ activeJobs' = activeJobs \ {running}
  /\ running' = NoJobId
  /\ pc' = "done"
  /\ atYield' = FALSE
  /\ UNCHANGED <<params, additionalThreads, cancelled, currentPin, stage, t, threadNum,
                 lastPreviewUpdate, work, cancelCalled, cancelK, lateAppend>>
  /\ UNCHANGED <<progressImage, overdrawMap, densityImage, densityOps, skipCall, pins, pinCall, client, response>>

\* ------------------------------------------------------ engine: continue
\* A continuation that starts from an empty log.
initialConnectionsEmpty(existing) == <<>>

\* connections: [...existingResult.connections]
initialConnections(existing) == existing.connections

\* POST /api/continue/:jobId up to the head of continueGeneration's loop.
PostContinue ==
  /\ running = NoJobId
  /\ jobs[GenJob].result.present
  /\ jobs[ContJob].status = "none"
  /\ \E add \in 1 .. MaxAdditional :
       LET existing == jobs[GenJob].result
           n == Len(existing.connections)
       IN /\ additionalThreads' = add
          /\ params' = [params EXCEPT !.maxThreads = existing.totalThreads + add]
          /\ connections' = initialConnections(existing)
          /\ progressImage' = replayExisting(existing.connections, n)
          /\ overdrawMap' = replayOverdraw(existing.connections, n)
          /\ currentPin' = IF n > 0 THEN existing.connections[n].toPin ELSE 0
          /\ threadNum' = n
          /\ jobs' = updateJobProgress(
                       updateJobStage(createJob(jobs, ContJob, params'), ContJob),
                       ContJob, n)
  /\ lineCache' = <<>>
  /\ response' = "pending"
  /\ activeJobs' = activeJobs \cup {ContJob}
  /\ running' = ContJob
  /\ cancelled' = FALSE
  /\ cancelK' = 0 /\ lateK' = 0 /\ lateAppend' = FALSE
  /\ lastPreviewUpdate' = 0
  /\ pc' = "continue"
  /\ atYield' = FALSE
  /\ UNCHANGED <<stage, t, work, cancelCalled, densityImage, densityOps, skipCall, pins, pinCall, client>>

\* One iteration of continueGeneration's loop.  Monochrome:
\* applyLineGammaCorrected pushes the connection and moves currentPin, then
\* the loop body pushes { fromPin: this.state.currentPin, toPin: bestPin }.
ContinueStep ==
  /\ pc = "continue"
  /\ loopGuard(threadNum, params.maxThreads)
  /\ LET candidates ==
           IF ~mono THEN generateColorCandidates(currentPin, params.minPinSkip, FALSE)
           ELSE {i \in Pins : i # currentPin
                              /\ circularDistance(i, currentPin) >= params.minPinSkip}
         scored == lineCacheAfter(lineCache, {<<currentPin, p>> : p \in candidates})
         preview == threadNum - lastPreviewUpdate >= Max(1, additionalThreads \div 50)
     IN /\ IF candidates = {}
             THEN UNCHANGED <<connections, currentPin, progressImage, overdrawMap>>
             ELSE \E bestPin \in candidates :
                    /\ currentPin' = bestPin
                    /\ overdrawMap' = applyToOverdraw(overdrawMap, scored, currentPin, bestPin)
                    /\ IF mono
                         THEN /\ connections' =
                                   Append(applyLineWithColor(connections, currentPin, bestPin),
                                          Conn(bestPin, bestPin, "#000000", "none"))
                              /\ progressImage' = applyToProgress(progressImage, scored,
                                                     currentPin, bestPin, ThreadFactor)
                         ELSE /\ \E bestColor \in bestColors :
                                   connections' = Append(connections,
                                      Conn(currentPin, bestPin, bestColor.hex, bestColor.name))
                              /\ UNCHANGED progressImage
        /\ lineCache' = IF preview /\ ~mono
                          THEN lineCacheAfter(scored, connectionPairs(connections'))
                          ELSE scored
        /\ IF preview
             THEN onProgress(threadNum + 1) /\ lastPreviewUpdate' = threadNum
             ELSE noProgress /\ UNCHANGED lastPreviewUpdate
  /\ threadNum' = threadNum + 1
  /\ atYield' = TRUE
  /\ trackAppend
  /\ UNCHANGED <<activeJobs, running, params, additionalThreads, pc, cancelled, stage, t,
                 work, cancelCalled, cancelK>>
  /\ UNCHANGED <<densityImage, densityOps, skipCall, pins, pinCall, client, response>>

\* assignThreadColorsLAB opens with "if (!this.state.colorImage) return []";
\* with a colour image it counts the connections per colour they carry.
assignThreadColorsLAB(conns, hasColorImage) ==
  IF ~hasColorImage THEN {} ELSE colorCounts(conns)

\* The result of continueGeneration, whose state has no colorImage.
continueResult(conns, img, cache) ==
  [present |-> TRUE, id |-> ContResultId, connections |-> conns, totalThreads |-> Len(conns),
   preview |-> IF mono THEN generatePreviewDataUrl(img)
               ELSE generateColorPreviewDataUrl(conns, cache, Len(conns)),
   threadColors |-> IF mono THEN singleBlack(conns)
                    ELSE assignThreadColorsLAB(conns, FALSE)]

\* continueGeneration resolves; the route calls completeJob.
ContinueFinish ==
  /\ pc = "continue"
  /\ ~loopGuard(threadNum, params.maxThreads)
  /\ lineCache' = IF mono THEN lineCache
                  ELSE lineCacheAfter(lineCache, connectionPairs(connections))
  /\ LET result == continueResult(connections, progressImage, lineCache')
     IN /\ jobs' = completeJob(jobs, running, result)
        /\ lateK' = IF cancelled THEN Max(lateK, result.totalThreads) ELSE lateK
  /\ activeJobs' = activeJobs \ {running}
  /\ running' = NoJobId
  /\ pc' = "done"
  /\ atYield' = FALSE
  /\ UNCHANGED <<params, additionalThreads, cancelled, connections, currentPin, stage, t,
                 threadNum, lastPreviewUpdate, work, cancelCalled, cancelK, lateAppend>>
  /\ UNCHANGED <<progressImage, overdrawMap, densityImage, densityOps, skipCall, pins, pinCall, client, response>>

Next ==
  \/ PostGenerate
  \/ \E j \in JobIds : Cancel(j)
  \/ Preprocess
  \/ GreedyOptimization
  \/ MultiScaleStep
  \/ MultiScaleStageEnd
  \/ InterleavedStageStart
  \/ InterleavedStep
  \/ Dispatch
  \/ FaceRefinementStep
  \/ LocalRefinementStep
  \/ AnnealingStep
  \/ PassReturn
  \/ GeneticGeneration
  \/ GeneticAdopt
  \/ Backtracking
  \/ Assemble
  \/ PostContinue
  \/ ContinueStep
  \/ ContinueFinish

Spec == Init /\ [][Next]_vars

\* ------------------------------------------------------ the density image
\* densityImage holds numbers in [0, 1]; the model keeps them in units of
\* 1 / DensityScale, rounded to the nearest unit.
DensityScale == 1000

\* The opacities a line is composited with, in the same units: threadOpacity
\* (0.12); the multi-scale stages min(0.5, 1.5 x), min(0.5, 1.1 x), 0.8 x;
\* the face pass 0.9 x.
ThreadOpacity == 120
Stage1Opacity == 180
Stage2Opacity == 132
Stage3Opacity == 96
FaceOpacity == 108
CompositeOpacities ==
  {ThreadOpacity, Stage1Opacity, Stage2Opacity, Stage3Opacity, FaceOpacity}

\* The number of density operations of a run of DensitySpec.
MaxDensityOps == 2

\* A composite that adds the opacity without weighting it by what is left.
compositeDensityAdditive(old, opacity) == old + opacity

\* densityImage[idx] = oldDensity + threadOpacity * (1 - oldDensity)
compositeDensity(old, opacity) ==
  old + (2 * opacity * (DensityScale - old) + DensityScale) \div (2 * DensityScale)

\* densityImage[idx] = Math.max(0, (oldDensity - threadOpacity) / (1 - threadOpacity))
revertDensity(old, opacity) ==
  Max(0, (2 * (old - opacity) * DensityScale + (DensityScale - opacity))
           \div (2 * (DensityScale - opacity)))

RECURSIVE compositeDensityLine(_, _, _, _)
compositeDensityLine(density, pixels, k, opacity) ==
  IF k > Len(pixels) THEN density
  ELSE compositeDensityLine(
         [density EXCEPT ![pixels[k]] = compositeDensity(density[pixels[k]], opacity)],
         pixels, k + 1, opacity)

RECURSIVE revertDensityLine(_, _, _, _)
revertDensityLine(density, pixels, k, opacity) ==
  IF k > Len(pixels) THEN density
  ELSE revertDensityLine(
         [density EXCEPT ![pixels[k]] = revertDensity(density[pixels[k]], opacity)],
         pixels, k + 1, opacity)

\* The density of a pixel that n lines were composited over at threadOpacity.
RECURSIVE densityAfter(_)
densityAfter(n) ==
  IF n = 0 THEN 0 ELSE compositeDensity(densityAfter(n - 1), ThreadOpacity)

\* Every pixel under a pin has been crossed by the same number of lines: by
\* none, by 4 or by 40 (the closed tour of the pins composited 0, 2 or 20
\* times).
DensityOverdraws == {0, 4, 40}

DensityInit ==
  /\ jobs = [j \in JobIds |-> NoJob]
  /\ activeJobs = {}
  /\ running = NoJobId
  /\ params = NoParams
  /\ pc = "idle"
  /\ atYield = FALSE
  /\ cancelled = FALSE
  /\ connections = <<>>
  /\ currentPin = 0
  /\ stage = 0 /\ t = 0 /\ threadNum = 0 /\ lastPreviewUpdate = 0
  /\ work = <<>>
  /\ additionalThreads = 0
  /\ progressImage = whiteCanvas
  /\ overdrawMap = noOverdraw
  /\ lineCache = <<>>
  /\ \E n \in DensityOverdraws : densityImage = [p \in Pins |-> densityAfter(n)]
  /\ response = "none"
  /\ densityOps = <<>>
  /\ skipCall = NoSkipCall
  /\ pins = <<>>
  /\ pinCall = NoPinCall
  /\ client = NoClient
  /\ cancelCalled = [j \in JobIds |-> FALSE]
  /\ cancelK = 0
  /\ lateK = 0
  /\ lateAppend = FALSE

densityUnchanged ==
  UNCHANGED <<jobs, activeJobs, running, params, pc, atYield, cancelled, connections,
              currentPin, stage, t, threadNum, lastPreviewUpdate, work,
              additionalThreads, progressImage, overdrawMap, lineCache, response, cancelCalled,
              cancelK, lateK, lateAppend, skipCall, pins, pinCall, client>>

\* The density update of applyLineWithOpacity / applyLineWithColor for one
\* line and one opacity.
DensityComposite ==
  /\ Len(densityOps) < MaxDensityOps
  /\ \E a \in Pins, b \in Pins, opacity \in CompositeOpacities :
       /\ a # b
       /\ densityImage' = compositeDensityLine(densityImage, getLinePixels(lineCache, a, b),
                                            1, opacity)
  /\ densityOps' = Append(densityOps, "composite")
  /\ densityUnchanged

\* The density update of revertLine for one line, at params.threadOpacity.
DensityRevert ==
  /\ Len(densityOps) < MaxDensityOps
  /\ \E a \in Pins, b \in Pins :
       /\ a # b
       /\ densityImage' = revertDensityLine(densityImage, getLinePixels(lineCache, a, b),
                                         1, ThreadOpacity)
  /\ densityOps' = Append(densityOps, "revert")
  /\ densityUnchanged

DensityNext == DensityComposite \/ DensityRevert

DensitySpec == DensityInit /\ [][DensityNext]_vars

\* ------------------------------------------------- candidate admission alone
\* The min-skip test of the candidate generators, for every configured
\* minPinSkip the request schema accepts, every preset and both colour modes.
SkipInit ==
  /\ jobs = [j \in JobIds |-> NoJob]
  /\ activeJobs = {}
  /\ running = NoJobId
  /\ \E skip \in SchemaMinPinSkip .. SchemaMaxPinSkip,
        preset \in {"fast", "balanced", "high"}, mode \in {"monochrome", "color"} :
       params = [NoParams EXCEPT !.minPinSkip = skip, !.qualityPreset = preset,
                                 !.colorMode = mode, !.maxThreads = MaxThreads]
  /\ pc = "idle"
  /\ atYield = FALSE
  /\ cancelled = FALSE
  /\ connections = <<>>
  /\ currentPin = 0
  /\ stage = 0 /\ t = 0 /\ threadNum = 0 /\ lastPreviewUpdate = 0
  /\ work = <<>>
  /\ additionalThreads = 0
  /\ progressImage = whiteCanvas
  /\ overdrawMap = noOverdraw
  /\ lineCache = <<>>
  /\ densityImage = [p \in Pins |-> 0]
  /\ response = "none"
  /\ densityOps = <<>>
  /\ skipCall = NoSkipCall
  /\ pins = <<>>
  /\ pinCall = NoPinCall
  /\ client = NoClient
  /\ cancelCalled = [j \in JobIds |-> FALSE]
  /\ cancelK = 0
  /\ lateK = 0
  /\ lateAppend = FALSE

skipUnchanged ==
  UNCHANGED <<jobs, activeJobs, running, params, pc, atYield, cancelled, connections,
              currentPin, stage, t, threadNum, lastPreviewUpdate, work,
              additionalThreads, progressImage, overdrawMap, lineCache, densityImage, response,
              cancelCalled, cancelK, lateK, lateAppend, densityOps, pins, pinCall,
              client>>

\* runStage of the multi-scale driver tests a pin against the stage's skip.
SkipRunStage ==
  /\ \E s \in 1 .. 3, cur \in Pins, p \in Pins :
       /\ p # cur
       /\ skipCall' = [generator |-> "runStage", currentPin |-> cur, candidate |-> p,
                       applied |-> multiScaleStageSkip(s)]
  /\ skipUnchanged

\* generateColorCandidates as the interleaved driver calls it: stage.minSkip,
\* with the face mask of the run.
SkipInterleaved ==
  /\ \E s \in 1 .. 3, cur \in Pins, p \in Pins :
       /\ p # cur
       /\ skipCall' = [generator |-> "generateColorCandidates", currentPin |-> cur,
                       candidate |-> p,
                       applied |-> colorCandidateSkip(cur, p, interleavedStageSkip(s), TRUE)]
  /\ skipUnchanged

\* continueGeneration: generateColorCandidates with params.minPinSkip in
\* colour mode, its own loop in monochrome; the rebuilt state has no face mask.
SkipContinue ==
  /\ \E cur \in Pins, p \in Pins :
       /\ p # cur
       /\ skipCall' = [generator |-> "continueGeneration", currentPin |-> cur,
                       candidate |-> p,
                       applied |-> IF mono THEN params.minPinSkip
                                   ELSE colorCandidateSkip(cur, p, params.minPinSkip, FALSE)]
  /\ skipUnchanged

SkipNext == SkipRunStage \/ SkipInterleaved \/ SkipContinue

SkipSpec == SkipInit /\ [][SkipNext]_vars

\* ------------------------------------------------------ pin generation alone
\* Positions along the perimeter are integers.  On a circular frame the
\* unit is a quarter of the base spacing 2 * pi / pinCount, which is the
\* offset pi / pinCount / 2 of an extra pin; on a square frame it is the
\* spacing of the pins of one side.
AngleUnitsPerPin == 4
ExtraShareDivisor == 3       \* i % 3 === 0
ExtraSharePercent == 15      \* Math.floor(baseCount * 0.15)

\* The pin counts requested (100..800 in the schema, scaled).  The face's
\* angular range runs from any angle to any other one: its width
\* 4 * atan2(faceBox.width / 2, radius) lies strictly between 0 and 2 * pi.
RequestedPinCounts == {5 * PinCount, 6 * PinCount}

\* The loop of generatePinsWithFaceAwareness from base pin i on; acc holds the
\* pins pushed so far (pinIndex is its length).  normalizedStart and
\* normalizedEnd bound the face's angular range.
RECURSIVE faceAwarePins(_, _, _, _, _)
faceAwarePins(baseCount, normalizedStart, normalizedEnd, i, acc) ==
  IF i >= baseCount THEN acc
  ELSE LET baseAngle == AngleUnitsPerPin * i
           inFaceRegion ==
             IF normalizedEnd > normalizedStart
               THEN baseAngle >= normalizedStart /\ baseAngle <= normalizedEnd
               ELSE baseAngle >= normalizedStart \/ baseAngle <= normalizedEnd
           withExtra ==
             IF /\ inFaceRegion
                /\ i % ExtraShareDivisor = 0
                /\ Len(acc) < baseCount + (baseCount * ExtraSharePercent) \div 100
               THEN Append(acc, baseAngle + 1)
               ELSE acc
       IN  faceAwarePins(baseCount, normalizedStart, normalizedEnd, i + 1,
                         Append(withExtra, baseAngle))

\* generatePins: uniform angles on a circular frame; on a square frame
\* floor(pinCount / 4) pins per side, each side running from one corner to
\* the next, both included.
generatePins(frameType, pinCount) ==
  IF frameType = "circular"
    THEN [i \in 1 .. pinCount |-> AngleUnitsPerPin * (i - 1)]
    ELSE LET perSide == pinCount \div 4
         IN  [i \in 1 .. (4 * perSide) |->
                ((i - 1) \div perSide) * (perSide - 1) + ((i - 1) % perSide)]

generatePinsWithFaceAwareness(frameType, pinCount, face) ==
  IF frameType = "circular"
    THEN IF face # <<>>
           THEN faceAwarePins(pinCount, face[1], face[2], 0, <<>>)
           ELSE generatePins(frameType, pinCount)
    ELSE generatePins(frameType, pinCount)

PinInit ==
  /\ jobs = [j \in JobIds |-> NoJob]
  /\ activeJobs = {}
  /\ running = NoJobId
  /\ params = NoParams
  /\ pc = "idle"
  /\ atYield = FALSE
  /\ cancelled = FALSE
  /\ connections = <<>>
  /\ currentPin = 0
  /\ stage = 0 /\ t = 0 /\ threadNum = 0 /\ lastPreviewUpdate = 0
  /\ work = <<>>
  /\ additionalThreads = 0
  /\ progressImage = whiteCanvas
  /\ overdrawMap = noOverdraw
  /\ lineCache = <<>>
  /\ densityImage = [p \in Pins |-> 0]
  /\ response = "none"
  /\ densityOps = <<>>
  /\ skipCall = NoSkipCall
  /\ pins = <<>>
  /\ client = NoClient
  /\ \E frame \in {"circular", "square"}, count \in RequestedPinCounts :
       \E face \in {<<>>} \cup
                   IF frame = "circular"
                     THEN {x \in (0 .. (AngleUnitsPerPin * count - 1))
                                   \X (0 .. (AngleUnitsPerPin * count - 1)) : x[1] # x[2]}
                     ELSE {} :
         pinCall = [frameType |-> frame, pinCount |-> count, face |-> face]
  /\ cancelCalled = [j \in JobIds |-> FALSE]
  /\ cancelK = 0
  /\ lateK = 0
  /\ lateAppend = FALSE

\* generate(): "const pins = this.generatePinsWithFaceAwareness(width, height,
\* faceBox)".
GeneratePins ==
  /\ pins = <<>>
  /\ pins' = generatePinsWithFaceAwareness(pinCall.frameType, pinCall.pinCount, pinCall.face)
  /\ UNCHANGED <<jobs, activeJobs, running, params, pc, atYield, cancelled, connections,
                 currentPin, stage, t, threadNum, lastPreviewUpdate, work,
                 additionalThreads, progressImage, overdrawMap, lineCache, densityImage,
                 response, cancelCalled, cancelK, lateK, lateAppend, densityOps, skipCall,
                 pinCall, client>>

PinNext == GeneratePins

PinSpec == PinInit /\ [][PinNext]_vars

\* ------------------------------------------------------ the browser client
\* The Home page of one browser in front of the service.  Its fetches of
\* POST /api/generate and POST /api/continue are the only requests the
\* service receives; the page never requests POST /api/cancel.
engineVars == <<jobs, activeJobs, running, params, pc, atYield, cancelled, connections,
                currentPin, stage, t, threadNum, lastPreviewUpdate, work,
                additionalThreads, progressImage, overdrawMap, lineCache, densityImage,
                cancelCalled, cancelK, lateK, lateAppend, densityOps, skipCall, pins,
                pinCall>>

\* storage.getResult: the result of the job stored under this id, if any.
getResult(js, id) == IF id \in JobIds THEN js[id].result ELSE NoResult

handleImageUpload ==
  /\ client.appState = "upload"
  /\ client' = [client EXCEPT !.appState = "configure", !.result = NoResult,
                              !.resultJob = NoJobId]
  /\ UNCHANGED <<engineVars, response>>

\* handleGenerate up to "await fetch('/api/generate')" (one generation per
\* run of the model).
handleGenerate ==
  /\ client.appState = "configure"
  /\ client.pending = "none"
  /\ jobs[GenJob].status = "none"
  /\ client' = [client EXCEPT !.appState = "generating", !.pending = "generate"]
  /\ response' = "none"
  /\ UNCHANGED engineVars

\* The service handles the page's POST /api/generate.
GenerateRoute ==
  /\ client.pending = "generate"
  /\ response = "none"
  /\ PostGenerate

\* handleGenerate after the fetch: a failed response is thrown and caught,
\* otherwise the job id is kept and pollProgress starts.
handleGenerateResponse ==
  /\ client.pending = "generate"
  /\ response # "none"
  /\ client' = IF response = "invalid"
                 THEN [client EXCEPT !.pending = "none", !.appState = "configure"]
                 ELSE [client EXCEPT !.pending = "none", !.currentJobId = GenJob,
                                     !.polling = @ \cup {GenJob}]
  /\ UNCHANGED <<engineVars, response>>

\* pollProgress of job j reads a final status: "complete" fetches the result
\* and shows it; "error" throws inside the timer callback, which ends the
\* polling.  Any other status re-arms the timer and changes nothing.
pollProgress(j) ==
  /\ j \in client.polling
  /\ jobs[j].status \in {"complete", "error"}
  /\ client' = IF jobs[j].status = "complete"
                 THEN [client EXCEPT !.result = getResult(jobs, j), !.resultJob = j,
                                     !.appState = "result", !.polling = @ \ {j}]
                 ELSE [client EXCEPT !.polling = @ \ {j}]
  /\ UNCHANGED <<engineVars, response>>

\* handleCancel: setIsGenerating(false), setAppState("configure"),
\* setProgress(null); no request is sent and no timer is cleared.
handleCancel ==
  /\ client.appState = "generating"
  /\ client' = [client EXCEPT
                  !.appState = "configure",
                  !.cancelled = @ \cup client.polling
                                  \cup (IF client.pending = "generate" THEN {GenJob}
                                        ELSE IF client.pending = "continue" THEN {ContJob}
                                        ELSE {})]
  /\ UNCHANGED <<engineVars, response>>

handleReset ==
  /\ client.appState = "result"
  /\ client' = [client EXCEPT !.appState = "upload", !.result = NoResult,
                              !.resultJob = NoJobId, !.currentJobId = NoJobId]
  /\ UNCHANGED <<engineVars, response>>

\* handleContinueGeneration up to "await fetch('/api/continue/' +
\* currentJobId)" (one continuation per run of the model, of the first job).
handleContinueGeneration ==
  /\ client.appState = "result"
  /\ client.result.present
  /\ client.currentJobId = GenJob
  /\ client.pending = "none"
  /\ jobs[ContJob].status = "none"
  /\ client' = [client EXCEPT !.appState = "generating", !.pending = "continue"]
  /\ response' = "none"
  /\ UNCHANGED engineVars

\* The service handles the page's POST /api/continue/:jobId.
ContinueRoute ==
  /\ client.pending = "continue"
  /\ response = "none"
  /\ PostContinue

handleContinueResponse ==
  /\ client.pending = "continue"
  /\ response # "none"
  /\ client' = [client EXCEPT !.pending = "none", !.currentJobId = ContJob,
                              !.polling = @ \cup {ContJob}]
  /\ UNCHANGED <<engineVars, response>>

\* handleExportSVG / handleExportPDF of the export panel, with the route
\* GET /api/export/:jobId/svg or /pdf that answers 404 unless
\* storage.getResult(jobId) finds a result.
handleExport(kind) ==
  /\ client.appState = "result"
  /\ client.result.present
  /\ client' = [client EXCEPT !.export =
                  [kind |-> kind, id |-> client.result.id,
                   ok |-> getResult(jobs, client.result.id).present]]
  /\ UNCHANGED <<engineVars, response>>

ClientNext ==
  \/ handleImageUpload
  \/ handleGenerate
  \/ GenerateRoute
  \/ handleGenerateResponse
  \/ \E j \in JobIds : pollProgress(j)
  \/ handleCancel
  \/ handleReset
  \/ handleContinueGeneration
  \/ ContinueRoute
  \/ handleContinueResponse
  \/ \E kind \in {"svg", "pdf"} : handleExport(kind)
  \/ Preprocess
  \/ GreedyOptimization
  \/ MultiScaleStep
  \/ MultiScaleStageEnd
  \/ InterleavedStageStart
  \/ InterleavedStep
  \/ Dispatch
  \/ FaceRefinementStep
  \/ LocalRefinementStep
  \/ AnnealingStep
  \/ PassReturn
  \/ GeneticGeneration
  \/ GeneticAdopt
  \/ Backtracking
  \/ Assemble
  \/ ContinueStep
  \/ ContinueFinish

ClientSpec == Init /\ [][ClientNext]_vars

\* ================================================================ properties
Results == {jobs[j].result : j \in {i \in JobIds : jobs[i].result.present}}
previousResult == jobs[GenJob].result
continuedResult == jobs[ContJob].result

\* C1: in every Result of generate or continueGeneration each adjacent pair
\* of connections is continuous: connections[k].toPin = connections[k+1].fromPin.
C1_ThreadContinuous ==
  \A r \in Results : \A k \in 1 .. (Len(r.connections) - 1) :
    r.connections[k].toPin = r.connections[k + 1].fromPin

\* C2: every connection of every Result has fromPin # toPin.
C2_NoSelfConnection ==
  \A r \in Results : \A k \in 1 .. Len(r.connections) :
    r.connections[k].fromPin # r.connections[k].toPin

\* effective_min_skip of the claim: 2 with a face-region endpoint, otherwise
\* the larger region policy, floored at the configured minPinSkip.
effectiveMinSkipFloored(a, b) ==
  IF getRegionForPixel(a) = "face" \/ getRegionForPixel(b) = "face" THEN 2
  ELSE Max(params.minPinSkip,
           Max(getMinPinSkipForRegion(getRegionForPixel(a), params.qualityPreset),
               getMinPinSkipForRegion(getRegionForPixel(b), params.qualityPreset)))

\* C3: every connection (a,b) of every Result has circular distance
\* min(|a-b|, P-|a-b|) >= effective_min_skip(a,b).
C3_MinSkipRespected ==
  \A r \in Results : \A k \in 1 .. Len(r.connections) :
    circularDistance(r.connections[k].fromPin, r.connections[k].toPin)
      >= effectiveMinSkipFloored(r.connections[k].fromPin, r.connections[k].toPin)

\* C4: a generate call that is never cancelled never rejects: its job never
\* ends in status "error".
C4_UncancelledNeverFails ==
  ~cancelCalled[GenJob] => jobs[GenJob].status # "error"

\* C5: a job whose engine was cancelled while running is never recorded
\* with status "complete" and gets no Result.
C5_CancelledNeverCompletes ==
  \A j \in JobIds : cancelCalled[j] =>
    jobs[j].status # "complete" /\ ~jobs[j].result.present

\* C6: once cancel() has been called with k connections placed, the
\* connection log never grows again and no snapshot or completion record
\* carries a currentThread above k.
C6_CancelStopsProgress ==
  cancelled => /\ ~lateAppend
               /\ Len(connections) <= cancelK
               /\ lateK <= cancelK

\* C6 witness: a cancelled run with threads placed has ended after emitting
\* a snapshot of its own.
C6_Witness ==
  cancelled /\ pc = "done" /\ cancelK >= 2 /\ lateK = cancelK

\* C7: within one job the currentThread of successive snapshots, the
\* completion record included, never decreases.
C7_ProgressMonotone ==
  [][\A j \in JobIds : jobs[j].status # "none" =>
        jobs'[j].currentThread >= jobs[j].currentThread]_vars

\* C8: a fresh generation's Result with at least one connection starts at
\* pin 0.
C8_StartsAtPinZero ==
  (previousResult.present /\ Len(previousResult.connections) >= 1)
    => previousResult.connections[1].fromPin = 0

\* C9: continuing a Result of n connections with K additional threads,
\* uncancelled, gives a Result of exactly n + K connections.
C9_ContinueAddsExactlyK ==
  (continuedResult.present /\ ~cancelCalled[ContJob])
    => Len(continuedResult.connections)
         = Len(previousResult.connections) + additionalThreads

\* C10: the first n connections of a continued Result are the n connections
\* of the previous Result, in order and with the same endpoints.
C10_ContinueKeepsPrefix ==
  continuedResult.present =>
    /\ Len(continuedResult.connections) >= Len(previousResult.connections)
    /\ \A k \in 1 .. Len(previousResult.connections) :
         /\ continuedResult.connections[k].fromPin = previousResult.connections[k].fromPin
         /\ continuedResult.connections[k].toPin = previousResult.connections[k].toPin

\* C10 witness: a continuation of a non-empty Result has completed with
\* connections appended.
C10_Witness ==
  /\ continuedResult.present
  /\ Len(previousResult.connections) >= 2
  /\ Len(continuedResult.connections) > Len(previousResult.connections)

\* C11: at every yield point of a job and at result assembly, currentPin is
\* the toPin of the last connection of the log, or 0 when the log is empty.
C11_CurrentPinIsLastToPin ==
  ((running # NoJobId /\ atYield) \/ pc = "assemble") =>
    currentPin = IF connections = <<>> THEN 0
                 ELSE connections[Len(connections)].toPin

\* Compositing the connections 1..k in order onto a white canvas, each along
\* its pixel walk with threadOpacity and its stored colour (black when the
\* connection stores none).
RECURSIVE replayOntoWhite(_, _)
replayOntoWhite(conns, k) ==
  IF k = 0 THEN [p \in Pins |-> WhiteValue]
  ELSE blendLine(replayOntoWhite(conns, k - 1),
                 linePixels(conns[k].fromPin, conns[k].toPin), 1,
                 colorFactor(conns[k].color))

\* C12: for every Result, compositing its connections in order onto a white
\* canvas, each with threadOpacity and its stored colour, reproduces the
\* Result's preview bitmap exactly.
C12_ReplayReproducesPreview ==
  \A j \in JobIds :
    jobs[j].result.present =>
      jobs[j].result.preview =
        replayOntoWhite(jobs[j].result.connections, Len(jobs[j].result.connections))


\* The sum of a field over the summaries of a threadColors list.
RECURSIVE sumCounts(_)
sumCounts(summaries) ==
  IF summaries = {} THEN 0
  ELSE LET x == CHOOSE y \in summaries : TRUE
       IN  x.count + sumCounts(summaries \ {x})

RECURSIVE sumPercentages(_)
sumPercentages(summaries) ==
  IF summaries = {} THEN 0
  ELSE LET x == CHOOSE y \in summaries : TRUE
       IN  x.percentage + sumPercentages(summaries \ {x})

\* C13: in every Result returned by generate or continueGeneration, the
\* per-colour counts of threadColors sum to the number of connections.
C13_CountsSumToConnections ==
  \A j \in JobIds :
    jobs[j].result.present =>
      sumCounts(jobs[j].result.threadColors) = Len(jobs[j].result.connections)

\* C14: in every Result with at least one connection, the rounded per-colour
\* percentages of threadColors sum to a value between 99 and 101.
C14_PercentagesSumToHundred ==
  \A j \in JobIds :
    (jobs[j].result.present /\ Len(jobs[j].result.connections) >= 1) =>
      sumPercentages(jobs[j].result.threadColors) \in 99 .. 101


\* C15: a generate or continue request whose parameters are outside the
\* documented ranges is rejected before a job is created: every job of the
\* registry was created with parameters inside the ranges.
C15_JobsHaveValidParams ==
  \A j \in JobIds :
    jobs[j].status # "none" => generationParamsSchema(jobs[j].params)


\* C17: every connection of every Result (monochrome or colour, fresh or
\* continued) carries both a colour hex and a colour name.
C17_ConnectionsCarryColorAndName ==
  \A j \in JobIds :
    jobs[j].result.present =>
      \A k \in 1 .. Len(jobs[j].result.connections) :
        /\ jobs[j].result.connections[k].color # "none"
        /\ jobs[j].result.connections[k].colorName # "none"

\* C18: during any job the number of entries of the line cache never exceeds
\* P * (P - 1) / 2, where P is the number of pins.
C18_LineCacheBound ==
  Cardinality(DOMAIN lineCache) <= (PinCount * (PinCount - 1)) \div 2


\* C20: for any pin pair, getLinePixels returns the same pixel list whether
\* or not the line cache already holds an entry for it: with the cache of any
\* reachable state it returns what it returns with an empty cache.
C20_CacheIsPureMemo ==
  \A a \in Pins, b \in Pins :
    getLinePixels(lineCache, a, b) = getLinePixels(<<>>, a, b)

\* The cache holds entries for both directions of some line.
C20_Witness ==
  \E a \in Pins, b \in Pins :
    /\ a # b
    /\ cacheKey(a, b) \in DOMAIN lineCache
    /\ cacheKey(b, a) \in DOMAIN lineCache


\* C19: for every pixel, density stays within [0, 1], never decreases when a
\* line is composited forward and never increases when a line is reverted.
C19_DensityRangeAndMonotone ==
  [][ /\ \A p \in Pins : densityImage'[p] \in 0 .. DensityScale
      /\ (densityOps' = Append(densityOps, "composite")) =>
            \A p \in Pins : densityImage'[p] >= densityImage[p]
      /\ (densityOps' = Append(densityOps, "revert")) =>
            \A p \in Pins : densityImage'[p] <= densityImage[p] ]_vars

\* A line was composited and a line was reverted, on a canvas where some
\* pixel is neither empty nor saturated.
C19_Witness ==
  /\ \E k \in 1 .. Len(densityOps) : densityOps[k] = "composite"
  /\ \E k \in 1 .. Len(densityOps) : densityOps[k] = "revert"
  /\ \E p \in Pins : densityImage[p] > 0 /\ densityImage[p] < DensityScale


\* C21: once a job's stored status is complete or error, no later operation
\* (progress update, completion, failure, cancel request) changes it.
C21_TerminalStatusIsFinal ==
  [][ \A j \in JobIds :
        jobs[j].status \in {"complete", "error"} => jobs'[j].status = jobs[j].status ]_vars


\* C22: absent cancellation (every thread has a valid candidate), the three
\* stages of the stage driver together place exactly maxThreads threads: when
\* the multi-scale or the interleaved driver returns, the log holds
\* maxThreads connections.
C22_StagesPlaceMaxThreads ==
  (running = GenJob /\ pc = "dispatch" /\ stage = 0 /\ ~cancelled) =>
    Len(connections) = params.maxThreads

\* C23: when neither endpoint lies in the face region, the min-skip a
\* candidate generator of the stage drivers or of continueGeneration applies
\* to admit an end pin is at least the configured minPinSkip.
C23_SkipNeverBelowConfigured ==
  (/\ skipCall.generator # "none"
   /\ getRegionForPixel(skipCall.currentPin) # "face"
   /\ getRegionForPixel(skipCall.candidate) # "face") =>
    skipCall.applied >= params.minPinSkip

\* The stage driver's thread counter is the length of the log when the face
\* pass is entered, and stays put during the pass.
faceEntryLength == threadNum

\* C24: the face refinement pass appends at most min(2000, floor(0.2 *
\* maxThreads)) connections to the log (the share is scaled as
\* FaceShareDivisor in extraFaceThreads).
C24_FacePassAppendsAtMostShare ==
  (pc = "face") => Len(connections) - faceEntryLength <= extraFaceThreads

\* C25: after the genetic refinement pass, the fitness 1e6 / (MSE + 1) of the
\* adopted connection list is not lower than the fitness of the list the
\* pass was given.
C25_GeneticNeverLowersFitness ==
  [][ (pc = "genetic" /\ pc' # "genetic") =>
        evaluateSolution(connections', lineCache') >= evaluateSolution(connections, lineCache')
    ]_vars

\* The number of connections of the log whose rasterised line covers pixel p.
coveringConnections(p) ==
  Cardinality({k \in 1 .. Len(connections) :
                 \E x \in 1 .. Len(linePixels(connections[k].fromPin, connections[k].toPin)) :
                   linePixels(connections[k].fromPin, connections[k].toPin)[x] = p})

\* C26: at every yield point of a job, overdraw[i] equals the number of
\* connections in the connection log whose rasterised line covers pixel i.
C26_OverdrawCountsLog ==
  (running # NoJobId /\ atYield) =>
    \A p \in Pins : overdrawMap[p] = coveringConnections(p)

\* C27: for a circular frame with a face box and requested pin count P, the
\* number of generated pins is at most P + 0.15 * P.
C27_FaceAwarePinCountBounded ==
  (pins # <<>> /\ pinCall.frameType = "circular" /\ pinCall.face # <<>>) =>
    100 * Len(pins) <= 115 * pinCall.pinCount

\* The perimeter positions strictly between position a and position b, going
\* forward from a (the whole perimeter but a when b = a).
between(a, b, p) ==
  IF a < b THEN a < p /\ p < b
  ELSE IF a > b THEN p > a \/ p < b
  ELSE FALSE

\* C28: generated pins are indexed 0..count-1 in perimeter order: pin i and
\* pin (i+1) mod count are neighbours along the perimeter with no other pin
\* between them, and on circular frames the pin angle is strictly increasing
\* with the index.
C28_PinsInPerimeterOrder ==
  (pins # <<>>) =>
    /\ \A i \in 1 .. Len(pins) : \A k \in 1 .. Len(pins) :
         ~between(pins[i], pins[(i % Len(pins)) + 1], pins[k])
    /\ (pinCall.frameType = "circular") =>
         \A i \in 1 .. (Len(pins) - 1) : pins[i] < pins[i + 1]

\* C29: the id the client sends for SVG/PDF export is an id under which
\* storage holds the Result.
C29_ExportIdFindsResult ==
  (client.export.kind # "none") =>
    /\ client.export.id \in JobIds
    /\ jobs[client.export.id].result.present

\* C30: after the user cancels in the client, the client never later
\* switches to the result view because of that job's progress polling.
C30_NoResultViewAfterCancel ==
  [][ \A j \in client.cancelled :
        ~(/\ j \in client.polling
          /\ j \notin client'.polling
          /\ client'.appState = "result") ]_vars

====
